---- MODULE Spec2Model ----
(***************************************************************************)
(* Library Collection (Library_app/library_modern): the data layer of      *)
(* data.py and the handlers of LibraryApp in ui.py.                        *)
(*                                                                         *)
(* Text is a sequence of one-character strings, so that lower(), strip(),  *)
(* split(','), isdigit(), int() and the substring test are computed.  The  *)
(* alphabet is ASCII: letters, digits, the space and the comma.            *)
(* A book is a record with the six fields of the JSON object and "keys",   *)
(* the set of keys the dict really holds; a field whose key is absent is   *)
(* kept at its default so that two equal dicts are equal records.          *)
(* None is <<>> and a value v that may be None is <<v>>.                    *)
(***************************************************************************)
EXTENDS Integers, Sequences, FiniteSets, TLC

VARIABLES
  books,      \* the list object: LibraryApp.books, or the `books` argument
  db,         \* library_db.json: <<>> when the file is absent, else <<collection>>
  wrote,      \* whether the last operation called save_books / wrote the file
  pc,         \* position of the caller
  op,         \* the last operation or handler
  arg,        \* its inputs
  ret,        \* what it returned (or raised)
  pre,        \* the content of `books` when it was called
  table,      \* the rows of the Treeview, each the values tuple of a row
  tagValues,  \* the values of the tag filter combo box
  coverPath,  \* LibraryApp.current_cover_path
  covers      \* the directory "covers": whether it exists, and its files

vars == <<books, db, wrote, pc, op, arg, ret, pre, table, tagValues, coverPath, covers>>

\* ------------------------------------------------------------------ bounds
MaxBooks == 3

\* -------------------------------------------------------------------- text
Digits  == {"0", "1", "2", "3", "9"}

\* str.lower(), one character
LowerChar(c) ==
  CASE c = "A" -> "a" [] c = "B" -> "b" [] c = "C" -> "c"
    [] c = "G" -> "g" [] c = "X" -> "x" [] OTHER -> c

Lower(s) == [i \in 1..Len(s) |-> LowerChar(s[i])]

\* ord(c): the code point Python compares strings by
Code(c) ==
  CASE c = " " -> 32 [] c = "," -> 44
    [] c = "0" -> 48 [] c = "1" -> 49 [] c = "2" -> 50 [] c = "3" -> 51 [] c = "9" -> 57
    [] c = "A" -> 65 [] c = "B" -> 66 [] c = "C" -> 67 [] c = "G" -> 71 [] c = "X" -> 88
    [] c = "a" -> 97 [] c = "b" -> 98 [] c = "c" -> 99 [] c = "g" -> 103
    [] c = "l" -> 108 [] c = "x" -> 120 [] c = "y" -> 121 [] c = "z" -> 122

\* s < t for two str: lexicographic by code point
StrLess(s, t) ==
  \E i \in 1..(Len(t)) :
     /\ \A j \in 1..(i-1) : j <= Len(s) /\ s[j] = t[j]
     /\ \/ i = Len(s) + 1
        \/ i <= Len(s) /\ Code(s[i]) < Code(t[i])

\* `sub in s` for two str
Contains(sub, s) ==
  \E i \in 0..(Len(s) - Len(sub)) :
     \A j \in 1..Len(sub) : s[i + j] = sub[j]

\* str.isdigit()
IsDigit(s) == Len(s) > 0 /\ \A i \in 1..Len(s) : s[i] \in Digits

DigitVal(c) == Code(c) - 48

\* int(s) of a digit string
RECURSIVE IntOf(_)
IntOf(s) ==
  IF s = <<>> THEN 0
  ELSE 10 * IntOf(SubSeq(s, 1, Len(s) - 1)) + DigitVal(s[Len(s)])

\* str.strip(): without leading and trailing spaces
RECURSIVE Strip(_)
Strip(s) ==
  IF s = <<>> THEN s
  ELSE IF Head(s) = " " THEN Strip(Tail(s))
  ELSE IF s[Len(s)] = " " THEN Strip(SubSeq(s, 1, Len(s) - 1))
  ELSE s

\* str.split(','): the pieces between the commas, the empty ones included
RECURSIVE Split(_)
Split(s) ==
  IF \A i \in 1..Len(s) : s[i] # ","
  THEN <<s>>
  ELSE LET i == CHOOSE k \in 1..Len(s) : s[k] = "," /\ \A j \in 1..(k-1) : s[j] # ","
       IN  <<SubSeq(s, 1, i - 1)>> \o Split(SubSeq(s, i + 1, Len(s)))

Reverse(s) == [i \in 1..Len(s) |-> s[Len(s) + 1 - i]]

InSeq(x, s) == \E i \in 1..Len(s) : s[i] = x

\* ------------------------------------------------------------------- books
Fields == {"title", "author", "year", "genre", "tags", "cover"}

\* the default of dict.get(key, default) as the code passes it
Default(k) == <<>>

\* b.get(k, default)
Get(b, k) == IF k \in b.keys THEN b[k] ELSE Default(k)

\* the identity tuple (title, author, year, genre)
Key(b) == <<Get(b, "title"), Get(b, "author"), Get(b, "year"), Get(b, "genre")>>

\* the dict literal of add_book
MkBook(title, author, year, genre, tags, cover) ==
  [keys |-> Fields, title |-> title, author |-> author, year |-> year,
   genre |-> genre, tags |-> tags, cover |-> cover]

\* ------------------------------------------------------------ data.py
\* A returned list is [id, val]: id tells which list object it is.
BooksId == "books"    \* the list object the caller passed as `books`
FreshId == "fresh"    \* a list object built by the call

\* what a call hands back: an exception raised, a list, a count, a book or None
NoRet == [raised |-> "", id |-> FreshId, val |-> <<>>, perm |-> <<>>, n |-> 0, book |-> <<>>]

\* add_book without the test of the year
add_book_year_unchecked(bks, title, author, year, genre, tags, cover_path) ==
  IF title = <<>> \/ author = <<>>
  THEN [books |-> bks, saved |-> FALSE, book |-> <<>>]
  ELSE LET book == MkBook(title, author, year, genre, tags, cover_path)
       IN  [books |-> Append(bks, book), saved |-> TRUE, book |-> <<book>>]

\* add_book with insert(0, book) for append(book)
add_book_at_front(bks, title, author, year, genre, tags, cover_path) ==
  IF title = <<>> \/ author = <<>> \/ year = <<>>
  THEN [books |-> bks, saved |-> FALSE, book |-> <<>>]
  ELSE LET book == MkBook(title, author, year, genre, tags, cover_path)
       IN  [books |-> <<book>> \o bks, saved |-> TRUE, book |-> <<book>>]

\* add_book: [books: the list afterwards, saved: save_books was called, book: the return]
add_book(bks, title, author, year, genre, tags, cover_path) ==
  IF title = <<>> \/ author = <<>> \/ year = <<>>
  THEN [books |-> bks, saved |-> FALSE, book |-> <<>>]
  ELSE LET book == MkBook(title, author, year, genre, tags, cover_path)
       IN  [books |-> Append(bks, book), saved |-> TRUE, book |-> <<book>>]

\* delete_books that stops at the first book it drops
delete_books_first_only(bks, to_delete_keys) ==
  LET hit == {i \in 1..Len(bks) : Key(bks[i]) \in to_delete_keys}
  IN  IF hit = {} THEN bks
      ELSE LET f == CHOOSE i \in hit : \A j \in hit : i <= j
           IN  SubSeq(bks, 1, f - 1) \o SubSeq(bks, f + 1, Len(bks))

\* delete_books: new_books
delete_books(bks, to_delete_keys) ==
  SelectSeq(bks, LAMBDA b : Key(b) \notin to_delete_keys)

\* search_match without .lower() on the title and the author
search_match_case_kept(b, keyword) ==
  \/ Contains(keyword, Get(b, "title"))
  \/ Contains(keyword, Get(b, "author"))

\* the condition of the comprehension of search_books, keyword already lower-cased
search_match(b, keyword) ==
  \/ Contains(keyword, Lower(Get(b, "title")))
  \/ Contains(keyword, Lower(Get(b, "author")))

search_books(bks, keyword) ==
  LET kw == Lower(keyword)
  IN  [id |-> FreshId, val |-> SelectSeq(bks, LAMBDA b : search_match(b, kw))]

\* The sort choices.  "->" stands for the arrow of the source's strings.
SortChoices ==
  {"Title (A->Z)", "Title (Z->A)", "Author (A->Z)", "Author (Z->A)",
   "Year (Old->New)", "Year (New->Old)", "Genre (A->Z)", "Genre (Z->A)"}

\* the field x[...] the lambda of sort_key_map reads
sort_field(choice) ==
  CASE choice \in {"Title (A->Z)", "Title (Z->A)"}       -> "title"
    [] choice \in {"Author (A->Z)", "Author (Z->A)"}     -> "author"
    [] choice \in {"Year (Old->New)", "Year (New->Old)"} -> "year"
    [] choice \in {"Genre (A->Z)", "Genre (Z->A)"}       -> "genre"

\* sort_key_map[choice](x), for x holding the field: a str (s) or an int (n)
sort_key(choice, x) ==
  IF sort_field(choice) = "year"
  THEN [s |-> <<>>, n |-> IF IsDigit(x.year) THEN IntOf(x.year) ELSE 0]
  ELSE [s |-> Lower(x[sort_field(choice)]), n |-> 0]

\* k1 < k2 for two keys of one choice
KeyLess(k1, k2) == k1.n < k2.n \/ (k1.n = k2.n /\ StrLess(k1.s, k2.s))

\* sort_choice.endswith("(Z->A)") or sort_choice.endswith("(New->Old)")
sort_reverse(choice) ==
  choice \in {"Title (Z->A)", "Author (Z->A)", "Genre (Z->A)", "Rating (Z->A)",
              "Year (New->Old)"}

\* list.sort, ascending: a stable insertion of each element, taken in the order
\* `idx`, behind every element already placed whose key is not greater
RECURSIVE StableSort(_, _, _)
StableSort(idx, key, done) ==
  IF idx = <<>> THEN done
  ELSE LET i == Head(idx)
           p == Cardinality({j \in 1..Len(done) : ~KeyLess(key[i], key[done[j]])})
       IN  StableSort(Tail(idx), key,
                      SubSeq(done, 1, p) \o <<i>> \o SubSeq(done, p + 1, Len(done)))

\* list.sort with reverse taken as "sort ascending, then reverse"
list_sort_then_reverse(key, reverse) ==
  LET ix == [i \in 1..Len(key) |-> i]
  IN  IF reverse THEN Reverse(StableSort(ix, key, <<>>))
      ELSE StableSort(ix, key, <<>>)

\* list.sort(key=, reverse=): with reverse the list is reversed, sorted ascending
\* and reversed again, which keeps equal keys in their input order
list_sort(key, reverse) ==
  LET ix == [i \in 1..Len(key) |-> i]
  IN  IF reverse THEN Reverse(StableSort(Reverse(ix), key, <<>>))
      ELSE StableSort(ix, key, <<>>)

\* sort_books: perm[i] is the input position of the i-th book of the result
sort_books(bks, sort_choice) ==
  LET ix == [i \in 1..Len(bks) |-> i]
  IN  IF sort_choice \notin SortChoices
      THEN [raised |-> "", id |-> FreshId, val |-> bks, perm |-> ix]
      ELSE IF \E i \in 1..Len(bks) : sort_field(sort_choice) \notin bks[i].keys
      THEN [raised |-> "KeyError", id |-> FreshId, val |-> <<>>, perm |-> <<>>]
      ELSE LET key  == [i \in 1..Len(bks) |-> sort_key(sort_choice, bks[i])]
               perm == list_sort(key, sort_reverse(sort_choice))
           IN  [raised |-> "", id |-> FreshId,
                val |-> [i \in 1..Len(bks) |-> bks[perm[i]]], perm |-> perm]

tAll == <<"A", "l", "l">>

\* filter_by_tag without the sentinel
filter_by_tag_no_sentinel(bks, tag) ==
  [id |-> FreshId, val |-> SelectSeq(bks, LAMBDA b : InSeq(tag, Get(b, "tags")))]

\* filter_by_tag
filter_by_tag(bks, tag) ==
  IF tag = tAll
  THEN [id |-> BooksId, val |-> bks]
  ELSE [id |-> FreshId, val |-> SelectSeq(bks, LAMBDA b : InSeq(tag, Get(b, "tags")))]

\* sorted(tags) of get_all_tags
RECURSIVE SortedStrs(_)
SortedStrs(S) ==
  IF S = {} THEN <<>>
  ELSE LET m == CHOOSE t \in S : \A u \in S : ~StrLess(u, t)
       IN  <<m>> \o SortedStrs(S \ {m})

TagsOf(b) == {Get(b, "tags")[j] : j \in 1..Len(Get(b, "tags"))}

get_all_tags(bks) == SortedStrs(UNION {TagsOf(bks[i]) : i \in 1..Len(bks)})

\* add_tag_book without `if tag not in tags`
add_tag_book_always(b, book_keys, tag) ==
  IF Key(b) \in book_keys
  THEN [b EXCEPT !.keys = @ \cup {"tags"}, !.tags = Append(Get(b, "tags"), tag)]
  ELSE b

\* one round of add_tag_to_books' loop: the book afterwards
add_tag_book(b, book_keys, tag) ==
  IF Key(b) \in book_keys
  THEN LET tags == Get(b, "tags")      \* b.setdefault("tags", [])
       IN  [b EXCEPT !.keys = @ \cup {"tags"},
                     !.tags = IF InSeq(tag, tags) THEN tags ELSE Append(tags, tag)]
  ELSE b

\* add_tag_to_books counting only the books that held a "tags" key
add_tag_to_books_miscount(bks, book_keys, tag) ==
  [books   |-> [i \in 1..Len(bks) |-> add_tag_book(bks[i], book_keys, tag)],
   changed |-> Cardinality({i \in 1..Len(bks) :
                  /\ Key(bks[i]) \in book_keys
                  /\ "tags" \in bks[i].keys
                  /\ ~InSeq(tag, bks[i].tags)})]

\* add_tag_to_books: [books: the list afterwards, changed: the count returned]
add_tag_to_books(bks, book_keys, tag) ==
  [books   |-> [i \in 1..Len(bks) |-> add_tag_book(bks[i], book_keys, tag)],
   changed |-> Cardinality({i \in 1..Len(bks) :
                  Key(bks[i]) \in book_keys /\ ~InSeq(tag, Get(bks[i], "tags"))})]

\* list.remove(x): without the first element equal to x
RemoveFirst(s, x) ==
  LET i == CHOOSE k \in 1..Len(s) : s[k] = x /\ \A j \in 1..(k-1) : s[j] # x
  IN  SubSeq(s, 1, i - 1) \o SubSeq(s, i + 1, Len(s))

\* one round of remove_tag_from_books' loop
remove_tag_book(b, book_keys, tag) ==
  IF Key(b) \in book_keys /\ InSeq(tag, Get(b, "tags"))
  THEN [b EXCEPT !.tags = RemoveFirst(@, tag)]
  ELSE b

remove_tag_from_books(bks, book_keys, tag) ==
  [books   |-> [i \in 1..Len(bks) |-> remove_tag_book(bks[i], book_keys, tag)],
   changed |-> Cardinality({i \in 1..Len(bks) :
                  Key(bks[i]) \in book_keys /\ InSeq(tag, Get(bks[i], "tags"))})]

\* ------------------------------------------------- the inputs of the model
sAb == <<"A", "b">>
saB == <<"a", "B">>
sb  == <<"b">>
sc  == <<"c">>
sC  == <<"C">>
sg  == <<"g">>
sG  == <<"G">>
sz  == <<"z">>
y2001 == <<"2", "0", "0", "1">>
y1999 == <<"1", "9", "9", "9">>
y30   == <<"3", "0">>
yabc  == <<"a", "b", "c">>
tx == <<"x">>
tX == <<"X">>
ty == <<"y">>
pCover == <<"covers/1_p.png">>

\* The books collections are drawn from: two titles and authors that differ by
\* case only, two books of one identity tuple, a year that is no number, a year
\* whose order as a number and as text differ, a tag named "All", a tag held
\* twice, and an object read from the file with keys missing.
B1 == MkBook(sAb, sc, y2001, sg, <<tx>>, <<>>)
B2 == MkBook(saB, sC, y1999, sG, <<tAll, tX>>, <<>>)
B3 == MkBook(sb, sAb, yabc, <<>>, <<>>, <<>>)
B4 == MkBook(sAb, sc, y2001, sg, <<>>, pCover)
B5 == [keys |-> {"author", "genre"}, title |-> <<>>, author |-> sb, year |-> <<>>,
       genre |-> sg, tags |-> <<>>, cover |-> <<>>]
B6 == MkBook(sz, sC, y30, sG, <<tx, tx>>, <<>>)

BookPool == {B1, B2, B3, B4, B5, B6}

\* the lists of at most n books of S
Lists(S, n) == UNION {[1..k -> S] : k \in 0..n}

Keywords == {<<>>, <<"a">>, <<"A", "B">>, sC, <<"z", "z">>}
Choices  == SortChoices \cup {"Bogus", "Rating (Z->A)"}
TagArgs  == {tAll, tx, tX, ty}
NoKey    == <<sz, sz, sz, sz>>
KeyPool  == {Key(b) : b \in BookPool} \cup {NoKey}
KeySets  == {{}, {Key(B1)}, {Key(B2)}, {Key(B5)}, {Key(B6), NoKey}, {Key(B1), Key(B3)}}

\* ------------------------------------------------ a caller of data.py
NoDir == [exists |-> FALSE, files |-> {}]

\* the caller before its call, whatever the directory "covers" is
CoreStart ==
  /\ books \in Lists(BookPool, MaxBooks)
  /\ db = <<>>
  /\ wrote = FALSE
  /\ pc = "ready"
  /\ op = "none"
  /\ arg = <<>>
  /\ ret = NoRet
  /\ pre = books
  /\ table = <<>>
  /\ tagValues = <<tAll>>
  /\ coverPath = <<>>

InitCore == CoreStart /\ covers = NoDir

UiUnchanged == UNCHANGED <<table, tagValues, coverPath, covers>>

\* the caller goes on with the value returned
Returned(o, a, r) ==
  /\ pc = "ready"
  /\ pc' = "returned"
  /\ op' = o
  /\ arg' = a
  /\ ret' = r
  /\ pre' = books
  /\ UiUnchanged

CallAddBook ==
  \E title \in {<<>>, sAb, <<" ">>}, author \in {<<>>, sc}, year \in {<<>>, y2001},
     rest \in {<<<<>>, <<>>, <<>>>>, <<sg, <<tx, ty>>, pCover>>} :
    LET r == add_book(books, title, author, year, rest[1], rest[2], rest[3])
    IN  /\ Returned("add_book",
                    [title |-> title, author |-> author, year |-> year,
                     genre |-> rest[1], tags |-> rest[2], cover |-> rest[3]],
                    [NoRet EXCEPT !.book = r.book])
        /\ books' = r.books
        /\ wrote' = r.saved
        /\ db' = IF r.saved THEN <<r.books>> ELSE db

CallDeleteBooks ==
  \E K \in KeySets :
    /\ Returned("delete_books", [keys |-> K],
                [NoRet EXCEPT !.val = delete_books(books, K)])
    /\ UNCHANGED <<books, db, wrote>>

CallSearch ==
  \E kw \in Keywords :
    LET r == search_books(books, kw)
    IN  /\ Returned("search_books", [keyword |-> kw],
                    [NoRet EXCEPT !.id = r.id, !.val = r.val])
        /\ UNCHANGED <<books, db, wrote>>

CallSort ==
  \E c \in Choices :
    LET r == sort_books(books, c)
    IN  /\ Returned("sort_books", [choice |-> c],
                    [NoRet EXCEPT !.raised = r.raised, !.id = r.id, !.val = r.val,
                                  !.perm = r.perm])
        /\ UNCHANGED <<books, db, wrote>>

CallFilter ==
  \E t \in TagArgs :
    LET r == filter_by_tag(books, t)
    IN  /\ Returned("filter_by_tag", [tag |-> t],
                    [NoRet EXCEPT !.id = r.id, !.val = r.val])
        /\ UNCHANGED <<books, db, wrote>>

CallAllTags ==
  /\ Returned("get_all_tags", <<>>, [NoRet EXCEPT !.val = get_all_tags(books)])
  /\ UNCHANGED <<books, db, wrote>>

CallAddTag ==
  \E K \in KeySets, t \in {tx, ty} :
    LET r == add_tag_to_books(books, K, t)
    IN  /\ Returned("add_tag_to_books", [keys |-> K, tag |-> t],
                    [NoRet EXCEPT !.n = r.changed])
        /\ books' = r.books
        /\ UNCHANGED <<db, wrote>>

\* the same call once more, on the list as the first call left it
CallAddTagAgain ==
  /\ pc = "returned"
  /\ op = "add_tag_to_books"
  /\ LET r == add_tag_to_books(books, arg.keys, arg.tag)
     IN  /\ books' = r.books
         /\ ret' = [NoRet EXCEPT !.n = r.changed]
  /\ pc' = "returned"
  /\ op' = "add_tag_to_books again"
  /\ pre' = books
  /\ UNCHANGED <<arg, db, wrote>>
  /\ UiUnchanged

CallRemoveTag ==
  \E K \in KeySets, t \in {tx, ty} :
    LET r == remove_tag_from_books(books, K, t)
    IN  /\ Returned("remove_tag_from_books", [keys |-> K, tag |-> t],
                    [NoRet EXCEPT !.n = r.changed])
        /\ books' = r.books
        /\ UNCHANGED <<db, wrote>>

\* What a caller may do to a list it was handed: append to it, remove from it,
\* reorder it.  The list `books` is that object when the call returned it.
MutateReturned ==
  /\ pc = "returned"
  /\ op \in {"search_books", "sort_books", "filter_by_tag"}
  /\ ret.raised = ""
  /\ \E m \in {"append", "pop", "reverse"} :
       LET v == CASE m = "append"  -> Append(ret.val, B3)
                  [] m = "pop"     -> SubSeq(ret.val, 1, Len(ret.val) - 1)
                  [] m = "reverse" -> Reverse(ret.val)
       IN  /\ ret' = [ret EXCEPT !.val = v]
           /\ books' = IF ret.id = BooksId THEN v ELSE books
  /\ pc' = "mutated"
  /\ UNCHANGED <<op, arg, pre, db, wrote>>
  /\ UiUnchanged

NextCore ==
  \/ CallAddBook
  \/ CallDeleteBooks
  \/ CallSearch
  \/ CallSort
  \/ CallFilter
  \/ CallAllTags
  \/ CallAddTag
  \/ CallAddTagAgain
  \/ CallRemoveTag
  \/ MutateReturned

SpecCore == InitCore /\ [][NextCore]_vars

\* ------------------------------------------------------- files of data.py
\* load_books: [books: the list returned, db: the file afterwards, wrote]
load_books(file) ==
  IF file # <<>>
  THEN [books |-> file[1], db |-> file, wrote |-> FALSE]
  ELSE [books |-> <<>>, db |-> <<<<>>>>, wrote |-> TRUE]

\* save_books: the file afterwards
save_books(bks) == <<bks>>

\* The image files a user may name: p.png is there (st_mtime 1), q.png is not.
\* A file of the directory "covers" is [name, data]; the data of a copy is named
\* after the file it was copied from.
SourceFiles == {"p.png"}

\* shutil.copy(src, dest): dest is written anew
CopyInto(files, src) ==
  {f \in files : f.name # "1_" \o src} \cup {[name |-> "1_" \o src, data |-> src]}

\* copy_cover_file with src.stat() before covers_dir.mkdir
copy_cover_file_stat_first(source_path, dir) ==
  IF source_path \notin SourceFiles
  THEN [path |-> <<>>, covers |-> dir]
  ELSE [path |-> <<"covers/1_" \o source_path>>,
        covers |-> [exists |-> TRUE, files |-> CopyInto(dir.files, source_path)]]

\* copy_cover_file: [path: the return, covers: the directory afterwards]
copy_cover_file(source_path, dir) ==
  LET made == [dir EXCEPT !.exists = TRUE]         \* covers_dir.mkdir(exist_ok=True)
  IN  IF source_path \notin SourceFiles            \* src.stat() raises
      THEN [path |-> <<>>, covers |-> made]
      ELSE [path |-> <<"covers/1_" \o source_path>>,
            covers |-> [made EXCEPT !.files = CopyInto(@, source_path)]]

\* a caller of copy_cover_file
CallCopyCover ==
  \E source_path \in {"p.png", "q.png"} :
    LET r == copy_cover_file(source_path, covers)
    IN  /\ pc = "ready"
        /\ pc' = "returned"
        /\ op' = "copy_cover_file"
        /\ arg' = [source_path |-> source_path]
        /\ ret' = [NoRet EXCEPT !.val = r.path]
        /\ pre' = books
        /\ covers' = r.covers
        /\ UNCHANGED <<books, db, wrote, table, tagValues, coverPath>>

\* ---------------------------------------------------------- ui.py: LibraryApp
\* The Treeview keeps the values of each row; item(i, "values") hands them back.
\* Which rows are selected is the widget's own state, which the user sets between
\* two handlers: a handler that reads the selection takes it as its input.

\* load_table: the rows shown; `filtered` is <<>> for None, else <<list>>
load_table(bks, filtered) ==
  LET books_to_show == IF filtered # <<>> /\ filtered[1] # <<>> THEN filtered[1] ELSE bks
  IN  [i \in 1..Len(books_to_show) |-> Key(books_to_show[i])]

\* update_tag_filter_values: the values of the combo box
update_tag_filter_values(bks) == <<tAll>> \o get_all_tags(bks)

\* tuple(self.table.item(i, "values")) for i in sel
selected_keys(rows, sel) == {rows[i] : i \in sel}

\* [t.strip() for t in tags_text.split(',') if t.strip()] if tags_text else []
parse_tags(tags_text) ==
  IF tags_text = <<>> THEN <<>>
  ELSE LET parts == Split(tags_text)
       IN  SelectSeq([i \in 1..Len(parts) |-> Strip(parts[i])], LAMBDA t : t # <<>>)

\* what library_db.json may hold when the application starts
FileContents == {<<>>, <<B1, B4>>, <<B5, B2>>}

\* the application before __init__, whatever the directory "covers" is
AppStart ==
  /\ db \in {<<>>} \cup {<<c>> : c \in FileContents}
  /\ books = <<>>
  /\ wrote = FALSE
  /\ pc = "start"
  /\ op = "none"
  /\ arg = <<>>
  /\ ret = NoRet
  /\ pre = <<>>
  /\ table = <<>>
  /\ tagValues = <<tAll>>
  /\ coverPath = <<>>

InitApp == AppStart /\ covers = NoDir

\* A handler ran to its end.  A handler returns nothing; its inputs are the
\* parameters of its action.
Handled(o) ==
  /\ pc = "running"
  /\ pc' = "running"
  /\ op' = o
  /\ UNCHANGED <<arg, ret, pre>>

\* LibraryApp.__init__
Construct ==
  /\ pc = "start"
  /\ LET l == load_books(db)
     IN  /\ books' = l.books
         /\ db' = l.db
         /\ wrote' = l.wrote
         /\ table' = load_table(l.books, <<>>)
  /\ pc' = "running"
  /\ op' = "__init__"
  /\ UNCHANGED <<arg, ret, pre, tagValues, coverPath, covers>>

\* What the user typed into the entries Title, Author, Year, Genre and Tags.
Forms ==
  { [title |-> <<>>, author |-> sc, year |-> y2001, genre |-> <<>>, tags_text |-> tx],
    [title |-> sb, author |-> <<" ">>, year |-> y30, genre |-> <<>>, tags_text |-> <<>>],
    [title |-> <<" ", "A", "b">>, author |-> sc, year |-> y2001, genre |-> <<"g", " ">>,
     tags_text |-> <<"x", ",", " ", "x">>],
    [title |-> sb, author |-> sc, year |-> y30, genre |-> <<>>,
     tags_text |-> <<" ", ",", "y", " ">>] }

\* LibraryApp.add_book with the entries holding f
UiAddBookForm(f) ==
  LET title  == Strip(f.title)
      author == Strip(f.author)
      year   == Strip(f.year)
      genre  == Strip(f.genre)
      tags   == parse_tags(Strip(f.tags_text))
  IN  /\ Handled("add_book")
      /\ IF title = <<>> \/ author = <<>> \/ year = <<>>
         THEN /\ wrote' = FALSE
              /\ UNCHANGED <<books, db, table, tagValues, coverPath, covers>>
         ELSE LET c == IF coverPath # <<>> THEN copy_cover_file(coverPath[1], covers)
                       ELSE [path |-> <<>>, covers |-> covers]
                  book == MkBook(title, author, year, genre, tags, c.path)
                  new  == Append(books, book)
              IN  /\ Len(books) < MaxBooks
                  /\ books' = new
                  /\ db' = save_books(new)
                  /\ wrote' = TRUE
                  /\ table' = load_table(new, <<>>)
                  /\ coverPath' = <<>>
                  /\ covers' = c.covers
                  /\ tagValues' = update_tag_filter_values(new)

UiAddBook == \E f \in Forms : UiAddBookForm(f)

\* the "Show All" button
UiShowAll ==
  /\ Handled("load_table")
  /\ table' = load_table(books, <<>>)
  /\ wrote' = FALSE
  /\ UNCHANGED <<books, db, tagValues, coverPath, covers>>

\* LibraryApp.search_books with the search entry holding kw
UiSearchFor(kw) ==
  /\ Handled("search_books")
  /\ table' = load_table(books, <<search_books(books, kw).val>>)
  /\ wrote' = FALSE
  /\ UNCHANGED <<books, db, tagValues, coverPath, covers>>

UiSearchBooks == \E kw \in {<<>>, sC, <<"z", "z">>} : UiSearchFor(kw)

\* apply_sort; when sort_books raises, the handler ends there
UiSortBy(c) ==
  LET r == sort_books(books, c)
  IN  /\ Handled("apply_sort")
      /\ table' = IF r.raised # "" THEN table ELSE load_table(books, <<r.val>>)
      /\ wrote' = FALSE
      /\ UNCHANGED <<books, db, tagValues, coverPath, covers>>

UiApplySort == \E c \in {"Title (Z->A)", "Author (A->Z)", "Year (Old->New)"} : UiSortBy(c)

\* apply_tag_filter with the combo box set to t
UiFilterBy(t) ==
  /\ Handled("apply_tag_filter")
  /\ table' = load_table(books, <<filter_by_tag(books, t).val>>)
  /\ wrote' = FALSE
  /\ UNCHANGED <<books, db, tagValues, coverPath, covers>>

UiApplyTagFilter == \E i \in 1..Len(tagValues) : UiFilterBy(tagValues[i])

\* upload_cover: the path the file dialog returned ("" when cancelled)
UiUploadCover ==
  \E path \in {"", "p.png", "q.png"} :
    /\ Handled("upload_cover")
    /\ coverPath' = IF path # "" THEN <<path>> ELSE coverPath
    /\ wrote' = FALSE
    /\ UNCHANGED <<books, db, table, tagValues, covers>>

\* what the user answers when asked for a tag (<<>>: cancelled or left empty)
TagAnswers == {<<>>, <<" ", "x">>}

\* bulk_add_tag / bulk_remove_tag with the rows `sel` selected; r is what the
\* function of data.py did
BulkTag(o, sel, answer, r) ==
  /\ Handled(o)
  /\ IF sel = {} \/ answer = <<>>
     THEN /\ wrote' = FALSE
          /\ UNCHANGED <<books, db, table, tagValues, coverPath, covers>>
     ELSE /\ books' = r.books
          /\ IF r.changed # 0
             THEN /\ db' = save_books(r.books)
                  /\ wrote' = TRUE
                  /\ tagValues' = update_tag_filter_values(r.books)
                  /\ table' = load_table(r.books, <<>>)
             ELSE /\ wrote' = FALSE
                  /\ UNCHANGED <<db, tagValues, table>>
          /\ UNCHANGED <<coverPath, covers>>

UiBulkAddTagTo(sel, answer) ==
  BulkTag("bulk_add_tag", sel, answer,
          add_tag_to_books(books, selected_keys(table, sel), Strip(answer)))

UiBulkAddTag ==
  \E sel \in SUBSET (1..Len(table)), answer \in TagAnswers : UiBulkAddTagTo(sel, answer)

UiBulkRemoveTagFrom(sel, answer) ==
  BulkTag("bulk_remove_tag", sel, answer,
          remove_tag_from_books(books, selected_keys(table, sel), Strip(answer)))

UiBulkRemoveTag ==
  \E sel \in SUBSET (1..Len(table)), answer \in TagAnswers : UiBulkRemoveTagFrom(sel, answer)

\* the comprehension of delete_selected
delete_selected_books(bks, to_remove) ==
  SelectSeq(bks, LAMBDA b : <<Get(b, "title"), Get(b, "author"),
                              Get(b, "year"), Get(b, "genre")>> \notin to_remove)

\* delete_selected with the rows `sel` selected; yes: the user confirms
UiDeleteRows(sel, yes) ==
  /\ Handled("delete_selected")
  /\ IF sel = {} \/ ~yes
     THEN /\ wrote' = FALSE
          /\ UNCHANGED <<books, db, table, tagValues, coverPath, covers>>
     ELSE LET new == delete_selected_books(books, selected_keys(table, sel))
          IN  /\ books' = new
              /\ db' = save_books(new)
              /\ wrote' = TRUE
              /\ table' = load_table(new, <<>>)
              /\ tagValues' = update_tag_filter_values(new)
              /\ UNCHANGED <<coverPath, covers>>

UiDeleteSelected ==
  \E sel \in SUBSET (1..Len(table)), yes \in BOOLEAN : UiDeleteRows(sel, yes)

\* The application under the user actions on the collection.
NextApp ==
  \/ Construct
  \/ UiAddBook
  \/ UiShowAll
  \/ UiSearchBooks
  \/ UiApplySort
  \/ UiApplyTagFilter
  \/ UiBulkAddTag
  \/ UiBulkRemoveTag
  \/ UiDeleteSelected

SpecApp == InitApp /\ [][NextApp]_vars

\* Adding and deleting: data.py under a caller, and the application with covers.
\* The directory "covers" may be absent, or hold an earlier copy and another file.
CoverDirs ==
  {NoDir,
   [exists |-> TRUE, files |-> {[name |-> "1_p.png", data |-> "old"],
                                [name |-> "2_r.png", data |-> "r.png"]}]}

InitEdit == (CoreStart \/ AppStart) /\ covers \in CoverDirs

NextEdit ==
  \/ CallAddBook
  \/ CallDeleteBooks
  \/ CallCopyCover
  \/ Construct
  \/ UiUploadCover
  \/ UiAddBook
  \/ UiSearchBooks
  \/ UiDeleteSelected

SpecEdit == InitEdit /\ [][NextEdit]_vars

\* ------------------------------------------------------------- properties
\* the books of s at the positions S, in the order of s
Pick(s, S) ==
  [k \in 1..Cardinality(S) |-> s[CHOOSE i \in S : Cardinality({j \in S : j <= i}) = k]]

\* kw occurs in s when letters are compared without regard to case
FoldContains(kw, s) ==
  \E i \in 0..(Len(s) - Len(kw)) :
     \A j \in 1..Len(kw) : LowerChar(s[i + j]) = LowerChar(kw[j])

EmptyField(a) == a.title = <<>> \/ a.author = <<>> \/ a.year = <<>>

\* C1: an add whose title, author or year is empty returns None, leaves the
\* collection as it was (same records, same order) and writes no collection
\* file; so does the add handler of the application.
C1_RejectedAdd ==
  [][ /\ (pc' = "returned" /\ op' = "add_book" /\ EmptyField(arg'))
           => (ret'.book = <<>> /\ books' = books /\ db' = db /\ ~wrote')
      /\ \A f \in Forms : (UiAddBookForm(f) /\ EmptyField(f))
           => (books' = books /\ db' = db /\ ~wrote') ]_vars

C1_Witness ==
  /\ pc = "returned" /\ op = "add_book"
  /\ arg.title # <<>> /\ arg.author # <<>> /\ arg.year = <<>>
  /\ ret.book = <<>> /\ books = pre /\ Len(books) >= 2 /\ ~wrote

\* the last book of `new` is b, and before it `new` is `old`
AppendedTo(old, new, b) ==
  /\ Len(new) = Len(old) + 1
  /\ \A i \in 1..Len(old) : new[i] = old[i]
  /\ new[Len(new)] = b

\* C2: an add with non-empty title, author and year appends exactly one record,
\* as the last one, holding the given title, author, year, genre, tags and cover;
\* the records before it stay as they were and where they were.  The handler of
\* the application does so with the texts of the entries, stripped.
C2_ValidAddAppends ==
  [][ /\ (pc' = "returned" /\ op' = "add_book" /\ ~EmptyField(arg'))
           => AppendedTo(books, books',
                [keys |-> Fields, title |-> arg'.title, author |-> arg'.author,
                 year |-> arg'.year, genre |-> arg'.genre, tags |-> arg'.tags,
                 cover |-> arg'.cover])
      /\ \A f \in Forms :
           (UiAddBookForm(f) /\ Strip(f.title) # <<>> /\ Strip(f.author) # <<>>
              /\ Strip(f.year) # <<>>)
           => AppendedTo(books, books',
                [keys |-> Fields, title |-> Strip(f.title), author |-> Strip(f.author),
                 year |-> Strip(f.year), genre |-> Strip(f.genre),
                 tags |-> parse_tags(Strip(f.tags_text)),
                 cover |-> IF coverPath = <<>> THEN <<>>
                           ELSE copy_cover_file(coverPath[1], covers).path]) ]_vars

C2_Witness ==
  /\ pc = "returned" /\ op = "add_book"
  /\ arg.tags = <<tx, ty>> /\ arg.cover = pCover
  /\ Len(pre) >= 2 /\ Len(books) = Len(pre) + 1
  /\ ret.book = <<books[Len(books)]>>

\* C3: when a handler of the application has ended, the collection file holds
\* the collection in memory.
C3_FileIsCollection == pc = "running" => db = <<books>>

C3_Witness ==
  /\ pc = "running" /\ op = "bulk_remove_tag" /\ wrote
  /\ Len(books) >= 2 /\ db = <<books>>

\* C4: search returns exactly the books whose title or author holds the keyword
\* when letters are compared without regard to case, in their order; the empty
\* keyword returns every book.
C4_Search ==
  (pc = "returned" /\ op = "search_books") =>
    /\ ret.val = Pick(pre, {i \in 1..Len(pre) :
                        \/ FoldContains(arg.keyword, Get(pre[i], "title"))
                        \/ FoldContains(arg.keyword, Get(pre[i], "author"))})
    /\ arg.keyword = <<>> => ret.val = pre

C4_Witness ==
  /\ pc = "returned" /\ op = "search_books" /\ arg.keyword = <<"A", "B">>
  /\ Len(pre) = 3 /\ Len(ret.val) = 2
  /\ ret.val[1] = B3 /\ ret.val[2] = B2

\* the field a criterion orders by
C5Field(c) ==
  CASE c \in {"Title (A->Z)", "Title (Z->A)"}   -> "title"
    [] c \in {"Author (A->Z)", "Author (Z->A)"} -> "author"
    [] c \in {"Genre (A->Z)", "Genre (Z->A)"}   -> "genre"
    [] OTHER -> "year"

\* the key of a criterion, as the claim names it
C5Key(c, b) ==
  CASE c \in {"Title (A->Z)", "Title (Z->A)"}   -> [n |-> 0, s |-> Lower(b.title)]
    [] c \in {"Author (A->Z)", "Author (Z->A)"} -> [n |-> 0, s |-> Lower(b.author)]
    [] c \in {"Genre (A->Z)", "Genre (Z->A)"}   -> [n |-> 0, s |-> Lower(b.genre)]
    [] OTHER -> [n |-> IF b.year # <<>> /\ \A i \in 1..Len(b.year) : b.year[i] \in Digits
                       THEN IntOf(b.year) ELSE 0,
                 s |-> <<>>]

C5Before(k1, k2) == k1.n < k2.n \/ (k1.n = k2.n /\ StrLess(k1.s, k2.s))

C5Descending(c) ==
  c \in {"Title (Z->A)", "Author (Z->A)", "Genre (Z->A)", "Year (New->Old)"}

\* C5: for each of the eight criteria, and books that hold the field of the
\* criterion, the result is a permutation of the collection, ordered by the key of the criterion, ascending or descending as
\* named, and books of equal keys keep the order they had in the input; years
\* 2001, 1999, abc sorted Old->New come out abc, 1999, 2001.
C5_Sort ==
  (pc = "returned" /\ op = "sort_books" /\ arg.choice \in SortChoices
     /\ \A i \in 1..Len(pre) : C5Field(arg.choice) \in pre[i].keys) =>
    LET n == Len(pre)
        k == [i \in 1..n |-> C5Key(arg.choice, pre[ret.perm[i]])]
    IN  /\ ret.raised = ""
        /\ Len(ret.perm) = n /\ Len(ret.val) = n
        /\ {ret.perm[i] : i \in 1..n} = 1..n
        /\ \A i \in 1..n : ret.val[i] = pre[ret.perm[i]]
        /\ \A i, j \in 1..n : i < j =>
             /\ IF C5Descending(arg.choice) THEN ~C5Before(k[i], k[j])
                ELSE ~C5Before(k[j], k[i])
             /\ (~C5Before(k[i], k[j]) /\ ~C5Before(k[j], k[i])) => ret.perm[i] < ret.perm[j]
        /\ (arg.choice = "Year (Old->New)" /\ n = 3 /\ pre[1].year = y2001
              /\ pre[2].year = y1999 /\ pre[3].year = yabc)
             => (ret.val[1].year = yabc /\ ret.val[2].year = y1999
                   /\ ret.val[3].year = y2001)

C5_Witness ==
  /\ pc = "returned" /\ op = "sort_books" /\ arg.choice = "Title (Z->A)"
  /\ pre = <<B1, B3, B2>> /\ ret.val = <<B3, B1, B2>>

\* C6: with the tag "All" the filter returns all books in their order, also
\* when a book holds a tag named "All"; with another tag it returns exactly the
\* books one of whose tags equals it character for character, in their order.
C6_FilterByTag ==
  (pc = "returned" /\ op = "filter_by_tag") =>
    IF arg.tag = <<"A", "l", "l">> THEN ret.val = pre
    ELSE ret.val = Pick(pre, {i \in 1..Len(pre) :
                          \E j \in 1..Len(Get(pre[i], "tags")) :
                             Get(pre[i], "tags")[j] = arg.tag})

C6_Witness ==
  /\ pc = "returned" /\ op = "filter_by_tag" /\ arg.tag = <<"A", "l", "l">>
  /\ pre = <<B1, B2, B6>> /\ ret.val = pre

\* C7: search, sort and filter hand back a list that is not the source, so that
\* appending to it, removing from it or reordering it leaves the source as it was.
C7_ReturnedListIsNew ==
  /\ (pc \in {"returned", "mutated"}
        /\ op \in {"search_books", "sort_books", "filter_by_tag"}) => ret.id # BooksId
  /\ pc = "mutated" => books = pre

\* C8: add_tag appends the tag to every book whose identity tuple is in the set
\* and that does not hold it, leaves every other book as it was, and returns the
\* number of books it changed; the same call once more changes nothing and
\* returns 0.
C8_AddTag ==
  /\ (pc = "returned" /\ op = "add_tag_to_books") =>
       LET hit == {i \in 1..Len(pre) :
                     /\ Key(pre[i]) \in arg.keys
                     /\ \A j \in 1..Len(Get(pre[i], "tags")) :
                          Get(pre[i], "tags")[j] # arg.tag}
       IN  /\ Len(books) = Len(pre)
           /\ \A i \in 1..Len(pre) :
                IF i \in hit
                THEN /\ books[i].tags = Append(Get(pre[i], "tags"), arg.tag)
                     /\ \A f \in {"title", "author", "year", "genre", "cover"} :
                          books[i][f] = pre[i][f]
                     /\ books[i].keys = pre[i].keys \cup {"tags"}
                ELSE books[i] = pre[i]
           /\ ret.n = Cardinality(hit)
  /\ (pc = "returned" /\ op = "add_tag_to_books again") => (ret.n = 0 /\ books = pre)

C8_Witness ==
  /\ pc = "returned" /\ op = "add_tag_to_books again"
  /\ ret.n = 0 /\ books = pre
  /\ \E i, j \in 1..Len(books) :
       /\ i < j /\ Key(books[i]) = Key(books[j]) /\ Key(books[i]) \in arg.keys
       /\ books[i].tags = <<tx, arg.tag>> /\ books[j].tags = <<arg.tag>>

\* C9: delete_books returns the books whose identity tuple is not in the set,
\* each as often as it occurred and in the order they had, so that all books of
\* a deleted tuple go together; delete_selected makes that result the collection.
C9_Delete ==
  [][ /\ (pc' = "returned" /\ op' = "delete_books") =>
           /\ ret'.val = Pick(books, {i \in 1..Len(books) : Key(books[i]) \notin arg'.keys})
           /\ \A j \in 1..Len(ret'.val) : Key(ret'.val[j]) \notin arg'.keys
      /\ \A sel \in SUBSET (1..Len(table)) :
           (UiDeleteRows(sel, TRUE) /\ sel # {})
             => books' = delete_books(books, {table[i] : i \in sel}) ]_vars

C9_Witness ==
  /\ pc = "returned" /\ op = "delete_books"
  /\ pre = <<B1, B2, B4>> /\ arg.keys = {Key(B1)} /\ ret.val = <<B2>>

\* C10: a record that lacks a key is handled by every operation as if the key
\* held its default: no operation fails on it.
C10_MissingKeysHandled ==
  (pc = "returned" /\ \E i \in 1..Len(pre) : pre[i].keys # Fields) => ret.raised = ""

\* C11: copy_cover_file of a source that does not exist returns None and does
\* not raise; afterwards the directory "covers" exists and holds the files it
\* held, each as it was; the add handler then still appends the book, with no
\* cover.
C11_MissingCoverSource ==
  [][ /\ (pc' = "returned" /\ op' = "copy_cover_file" /\ arg'.source_path = "q.png")
           => /\ ret'.raised = "" /\ ret'.val = <<>>
              /\ covers'.exists /\ covers'.files = covers.files
      /\ \A f \in Forms :
           (UiAddBookForm(f) /\ coverPath = <<"q.png">> /\ Strip(f.title) # <<>>
              /\ Strip(f.author) # <<>> /\ Strip(f.year) # <<>>)
           => /\ Len(books') = Len(books) + 1
              /\ \A i \in 1..Len(books) : books'[i] = books[i]
              /\ books'[Len(books')].cover = <<>>
              /\ "cover" \in books'[Len(books')].keys
              /\ covers'.exists /\ covers'.files = covers.files ]_vars

C11_Witness ==
  /\ pc = "returned" /\ op = "copy_cover_file" /\ arg.source_path = "q.png"
  /\ ret.val = <<>> /\ covers.exists
  /\ [name |-> "1_p.png", data |-> "old"] \in covers.files

\* the rows of the table for a sequence of books
RowsOf(l) == [i \in 1..Len(l) |-> Key(l[i])]

\* C12: after a search, a sort or a tag filter the table shows exactly the
\* sequence the function returned, in its order; when no book matches, the
\* table is empty.
C12_TableShowsResult ==
  [][ /\ \A kw \in {<<>>, sC, <<"z", "z">>} :
           UiSearchFor(kw) => table' = RowsOf(search_books(books, kw).val)
      /\ \A c \in SortChoices :
           (UiSortBy(c) /\ sort_books(books, c).raised = "")
             => table' = RowsOf(sort_books(books, c).val)
      /\ \A i \in 1..Len(tagValues) :
           UiFilterBy(tagValues[i])
             => table' = RowsOf(filter_by_tag(books, tagValues[i]).val) ]_vars

\* C13: once bulk_remove_tag has removed a tag from the selected books, no book
\* whose key is selected still holds the tag, and the tags of every other book
\* are as they were; the books are those the handlers of the application made.
C13_RemoveTag ==
  [][ \A sel \in SUBSET (1..Len(table)), answer \in TagAnswers :
        (UiBulkRemoveTagFrom(sel, answer) /\ sel # {} /\ Strip(answer) # <<>>)
          => LET ks == selected_keys(table, sel)
                 t  == Strip(answer)
             IN  /\ Len(books') = Len(books)
                 /\ \A i \in 1..Len(books) :
                      IF Key(books[i]) \in ks
                      THEN ~InSeq(t, Get(books'[i], "tags"))
                      ELSE Get(books'[i], "tags") = Get(books[i], "tags") ]_vars

====
